---- MODULE Spec2Model ----
(***************************************************************************)
(* Model of scripts/match_listings_to_brands.py: text normalisation, the   *)
(* brand keyspace, the similarity score, best-match selection with its     *)
(* substring shortlist, and the batch run of main().                       *)
(*                                                                         *)
(* Texts are sequences of one-character strings.  A few characters that    *)
(* are not ASCII are written by name ("A_GRAVE" is U+00C0, "PAREN_ONE" is  *)
(* U+2474).  Python's None and pandas' missing value are one-element       *)
(* sequences holding a marker that no character equals.                    *)
(***************************************************************************)
EXTENDS Integers, Sequences, FiniteSets, TLC

VARIABLES
    pc,             \* position of main() in its body
    input_csv,      \* the listings file: [readable, columns, rows]
    brands_csv,     \* the brand file: [readable, columns, rows]
    threshold,      \* args.threshold
    df,             \* listings frame: sequence of [text, list_norm, list_compact]
    brand_keys,     \* result of build_brand_keyspace
    matched_brand,  \* the three result lists of main()
    match_score,
    matched_key,
    output_csv,     \* rows written by df.to_csv, or NotWritten
    exit_code       \* process exit status, -1 while running

vars == <<pc, input_csv, brands_csv, threshold, df, brand_keys,
          matched_brand, match_score, matched_key, output_csv, exit_code>>

-----------------------------------------------------------------------------
(* Python values *)

None == <<"None">>
NaN == <<"NaN">>
NO_BRAND == <<"no brand">>
NotWritten == <<"not written">>

(* pd.isna on a scalar cell *)
isna(s) == s = NaN

(* Series.fillna("") on one cell *)
fillna(s) == IF isna(s) THEN <<>> ELSE s

-----------------------------------------------------------------------------
(* Characters *)

LowerLetters == {"a", "b"}
Digits == {"1"}
\* what Python's \s matches among the characters used here
Whitespace == {" ", "\t"}

\* unidecode() of one character: ASCII passes through unchanged, the others
\* are replaced by their transliteration
unidecodeChar(c) ==
    CASE c = "A_GRAVE" -> <<"A">>
      [] c = "PAREN_ONE" -> <<"(", "1", ")">>
      [] OTHER -> <<c>>

\* str.lower() of one ASCII character
lowerChar(c) ==
    CASE c = "A" -> "a"
      [] c = "B" -> "b"
      [] OTHER -> c

RECURSIVE unidecode(_)
unidecode(s) ==
    IF s = <<>> THEN <<>> ELSE unidecodeChar(Head(s)) \o unidecode(Tail(s))

lower(s) == [i \in 1..Len(s) |-> lowerChar(s[i])]

\* the characters the class [a-z0-9\s] keeps
IsKept(c) == c \in LowerLetters \cup Digits \cup Whitespace

IsSpace(c) == c \in Whitespace

\* re.sub(r"[^a-z0-9\s]+", " ", s): every maximal run of characters outside
\* the class becomes one space; inRun says the previous character was one
RECURSIVE sub_dropped(_, _)
sub_dropped(s, inRun) ==
    IF s = <<>> THEN <<>>
    ELSE IF ~IsKept(Head(s))
         THEN (IF inRun THEN <<>> ELSE <<" ">>) \o sub_dropped(Tail(s), TRUE)
         ELSE <<Head(s)>> \o sub_dropped(Tail(s), FALSE)

\* re.sub(r"\s+", " ", s): every maximal run of whitespace becomes one space
RECURSIVE sub_spaces(_, _)
sub_spaces(s, inRun) ==
    IF s = <<>> THEN <<>>
    ELSE IF IsSpace(Head(s))
         THEN (IF inRun THEN <<>> ELSE <<" ">>) \o sub_spaces(Tail(s), TRUE)
         ELSE <<Head(s)>> \o sub_spaces(Tail(s), FALSE)

RECURSIVE lstrip(_)
lstrip(s) ==
    IF s # <<>> /\ IsSpace(Head(s)) THEN lstrip(Tail(s)) ELSE s

RECURSIVE rstrip(_)
rstrip(s) ==
    IF s # <<>> /\ IsSpace(s[Len(s)]) THEN rstrip(SubSeq(s, 1, Len(s) - 1)) ELSE s

strip(s) == rstrip(lstrip(s))

\* norm without the final strip()
normNoStrip(s) ==
    IF isna(s) THEN <<>>
    ELSE sub_spaces(sub_dropped(lower(unidecode(s)), FALSE), FALSE)

norm(s) ==
    IF isna(s) THEN <<>>
    ELSE strip(sub_spaces(sub_dropped(lower(unidecode(s)), FALSE), FALSE))

compact(s) == SelectSeq(s, LAMBDA c : c # " ")

-----------------------------------------------------------------------------
(* Scores.  rapidfuzz returns floating-point percentages; a score is kept   *)
(* here as the exact fraction <<n, d>> in lowest terms, so that comparisons *)
(* between scores are those of the numbers themselves.                      *)

RECURSIVE GCD(_, _)
GCD(a, b) == IF b = 0 THEN a ELSE GCD(b, a % b)

Frac(n, d) == LET g == GCD(n, d) IN <<n \div g, d \div g>>

Zero == Frac(0, 1)
Hundred == Frac(100, 1)

\* x > y and x >= y on scores
Gt(x, y) == x[1] * y[2] > y[1] * x[2]
Geq(x, y) == x[1] * y[2] >= y[1] * x[2]

\* score >= an integer
GeqInt(x, t) == x[1] >= t * x[2]

MaxScore(S) == CHOOSE x \in S : \A y \in S : Geq(x, y)

\* length of a longest common subsequence
RECURSIVE LCS(_, _)
LCS(s, t) ==
    IF s = <<>> \/ t = <<>> THEN 0
    ELSE IF Head(s) = Head(t) THEN 1 + LCS(Tail(s), Tail(t))
    ELSE LET a == LCS(Tail(s), t)
             b == LCS(s, Tail(t))
         IN IF a >= b THEN a ELSE b

\* Indel distance: insertions and deletions turning s into t
indel_distance(s, t) == Len(s) + Len(t) - 2 * LCS(s, t)

\* 100 - 100 * dist / lensum, and 100 when lensum is 0
norm_distance(dist, lensum) ==
    IF lensum = 0 THEN Hundred ELSE Frac(100 * (lensum - dist), lensum)

\* fuzz.ratio: normalised Indel similarity in percent
ratio(s1, s2) == norm_distance(indel_distance(s1, s2), Len(s1) + Len(s2))

Chars(s) == {s[i] : i \in 1..Len(s)}

\* the windows of s2 that partial_ratio aligns s1 with (Len(s1) <= Len(s2)):
\* proper prefixes shorter than s1, every full-length window, and the
\* suffixes no longer than s1; a window is skipped when its last (for a
\* suffix: first) character does not occur in s1
partial_windows(s1, s2) ==
    LET len1 == Len(s1)
        len2 == Len(s2)
        cs == Chars(s1)
    IN  {SubSeq(s2, 1, i) : i \in {j \in 1..(len1 - 1) : s2[j] \in cs}}
        \cup {SubSeq(s2, i + 1, i + len1) :
                 i \in {j \in 0..(len2 - len1 - 1) : len1 > 0 /\ s2[j + len1] \in cs}}
        \cup {SubSeq(s2, i + 1, len2) :
                 i \in {j \in (len2 - len1)..(len2 - 1) : s2[j + 1] \in cs}}

partial_ratio_impl(s1, s2) ==
    MaxScore({Zero} \cup {ratio(s1, w) : w \in partial_windows(s1, s2)})

\* fuzz.partial_ratio
partial_ratio(s1, s2) ==
    IF s1 = <<>> /\ s2 = <<>> THEN Hundred
    ELSE LET shorter == IF Len(s1) <= Len(s2) THEN s1 ELSE s2
             longer == IF Len(s1) <= Len(s2) THEN s2 ELSE s1
             res == partial_ratio_impl(shorter, longer)
         IN IF res # Hundred /\ Len(s1) = Len(s2)
            THEN MaxScore({res, partial_ratio_impl(longer, shorter)})
            ELSE res

\* set(s.split()): the set of whitespace-separated words
RECURSIVE split(_, _)
split(s, cur) ==
    IF s = <<>> THEN (IF cur = <<>> THEN {} ELSE {cur})
    ELSE IF IsSpace(Head(s))
         THEN (IF cur = <<>> THEN {} ELSE {cur}) \cup split(Tail(s), <<>>)
         ELSE split(Tail(s), Append(cur, Head(s)))

\* code point of a character of a normalised text
ord(c) ==
    CASE c = " " -> 32
      [] c = "1" -> 49
      [] c = "a" -> 97
      [] c = "b" -> 98
      [] OTHER -> 0

\* s < t in Python's string order
RECURSIVE StrLess(_, _)
StrLess(s, t) ==
    IF t = <<>> THEN FALSE
    ELSE IF s = <<>> THEN TRUE
    ELSE IF Head(s) = Head(t) THEN StrLess(Tail(s), Tail(t))
    ELSE ord(Head(s)) < ord(Head(t))

\* " ".join(sorted(words))
RECURSIVE join_sorted(_)
join_sorted(words) ==
    IF words = {} THEN <<>>
    ELSE LET w == CHOOSE x \in words : \A y \in words \ {x} : StrLess(x, y)
             rest == words \ {w}
         IN IF rest = {} THEN w ELSE w \o <<" ">> \o join_sorted(rest)

\* fuzz.token_set_ratio
token_set_ratio(s1, s2) ==
    IF s1 = <<>> \/ s2 = <<>> THEN Zero
    ELSE LET tokens_a == split(s1, <<>>)
             tokens_b == split(s2, <<>>)
             intersect == tokens_a \cap tokens_b
             diff_ab == tokens_a \ tokens_b
             diff_ba == tokens_b \ tokens_a
             diff_ab_joined == join_sorted(diff_ab)
             diff_ba_joined == join_sorted(diff_ba)
             ab_len == Len(diff_ab_joined)
             ba_len == Len(diff_ba_joined)
             sect_len == Len(join_sorted(intersect))
             sep == IF sect_len # 0 THEN 1 ELSE 0
             sect_ab_len == sect_len + sep + ab_len
             sect_ba_len == sect_len + sep + ba_len
             result == norm_distance(indel_distance(diff_ab_joined, diff_ba_joined),
                                     sect_ab_len + sect_ba_len)
             sect_ab_ratio == norm_distance(sep + ab_len, sect_len + sect_ab_len)
             sect_ba_ratio == norm_distance(sep + ba_len, sect_len + sect_ba_len)
         IN IF tokens_a = {} \/ tokens_b = {} THEN Zero
            ELSE IF intersect # {} /\ (diff_ab = {} \/ diff_ba = {}) THEN Hundred
            ELSE IF sect_len = 0 THEN result
            ELSE MaxScore({result, sect_ab_ratio, sect_ba_ratio})

score_listing_against_key(list_norm, list_compact, key_norm, key_compact) ==
    LET s1 == partial_ratio(list_norm, key_norm)
        s2 == token_set_ratio(list_norm, key_norm)
        s3 == partial_ratio(list_compact, key_compact)
    IN MaxScore({s1, s2, s3})

-----------------------------------------------------------------------------
(* The brand keyspace *)

\* DataFrame.drop_duplicates(subset=["brand", "key_norm"]) keeping the last
\* occurrence instead of the first
RECURSIVE drop_duplicates_last(_)
drop_duplicates_last(rows) ==
    IF rows = <<>> THEN <<>>
    ELSE LET r == Head(rows)
             later == {Tail(rows)[j] : j \in 1..(Len(rows) - 1)}
         IN IF \E q \in later : q.brand = r.brand /\ q.key_norm = r.key_norm
            THEN drop_duplicates_last(Tail(rows))
            ELSE <<r>> \o drop_duplicates_last(Tail(rows))

\* DataFrame.drop_duplicates(subset=["brand", "key_norm"]): keep="first";
\* missing values compare equal to each other
RECURSIVE drop_duplicates(_)
drop_duplicates(rows) ==
    IF rows = <<>> THEN <<>>
    ELSE LET r == rows[Len(rows)]
             front == SubSeq(rows, 1, Len(rows) - 1)
         IN IF \E j \in 1..Len(front) :
                   front[j].brand = r.brand /\ front[j].key_norm = r.key_norm
            THEN drop_duplicates(front)
            ELSE Append(drop_duplicates(front), r)

\* the two derived columns of one brand row
with_key_columns(row) ==
    LET key_norm == norm(fillna(row.key))
    IN [brand |-> row.brand, key |-> row.key,
        key_norm |-> key_norm, key_compact |-> compact(key_norm)]

\* (out["key_norm"] != "") & (out["brand"] != ""); a missing brand is not
\* equal to "", so it passes
not_empty(row) == row.key_norm # <<>> /\ row.brand # <<>>

build_brand_keyspace(brands_df) ==
    LET out == [j \in 1..Len(brands_df) |-> with_key_columns(brands_df[j])]
    IN drop_duplicates(SelectSeq(out, not_empty))

-----------------------------------------------------------------------------
(* Best-match selection *)

\* Python's `k in s` on strings
IsSubstring(k, s) ==
    \E j \in 0..(Len(s) - Len(k)) : SubSeq(s, j + 1, j + Len(k)) = k

\* the for loop of best_brand with `>=` in place of `>`
RECURSIVE scan_last(_, _, _, _)
scan_last(list_norm, list_compact, candidates, best) ==
    IF candidates = <<>> THEN best
    ELSE LET row == Head(candidates)
             sc == score_listing_against_key(list_norm, list_compact,
                                             row.key_norm, row.key_compact)
         IN scan_last(list_norm, list_compact, Tail(candidates),
                      IF Geq(sc, best[2]) THEN <<row.brand, sc, row.key_norm>> ELSE best)

\* the for loop of best_brand: best is replaced when a score is strictly higher
RECURSIVE scan(_, _, _, _)
scan(list_norm, list_compact, candidates, best) ==
    IF candidates = <<>> THEN best
    ELSE LET row == Head(candidates)
             sc == score_listing_against_key(list_norm, list_compact,
                                             row.key_norm, row.key_compact)
         IN scan(list_norm, list_compact, Tail(candidates),
                 IF Gt(sc, best[2]) THEN <<row.brand, sc, row.key_norm>> ELSE best)

\* the rows whose key occurs in the listing
shortlist(list_norm, list_compact, keys) ==
    SelectSeq(keys, LAMBDA row : IsSubstring(row.key_norm, list_norm)
                                 \/ IsSubstring(row.key_compact, list_compact))

best_brand(list_norm, list_compact, keys) ==
    LET sub == shortlist(list_norm, list_compact, keys)
        candidates == IF Len(sub) # 0 THEN sub ELSE keys
    IN scan(list_norm, list_compact, candidates, <<None, Zero, None>>)

-----------------------------------------------------------------------------
(* Bounds and input pools *)

MaxListings == 2      \* rows of the listings file
MaxBrandRows == 2     \* rows of the brand file
MaxRawLen == 3        \* length of a raw text given to norm

DefaultThreshold == 85

ListingCol == "Listing (Cleaned)"

\* all sequences over S of length at most n
SeqsUpTo(S, n) == UNION {[1..k -> S] : k \in 0..n}

Thresholds == {0, DefaultThreshold, 100}

BrandNames == {<<"A">>, <<"B">>}

\* cells of the listing column in a run of main()
ListingCells == {NaN, <<"A">>, <<"b", "-", "a">>}

\* cells of the key column in a run of main()
KeyCells == {<<"A", "b">>, <<"-">>}

RawChars == {"a", "b", "A", "1", "-", " ", "\t", "A_GRAVE", "PAREN_ONE"}

Unreadable == [readable |-> FALSE, columns |-> {}, rows |-> <<>>]

\* the listings file: unreadable, without the listing column (its rows then
\* carry no listing text), or with it
InputFiles ==
    {Unreadable}
    \cup {[readable |-> TRUE, columns |-> {}, rows |-> r] :
             r \in SeqsUpTo({NaN}, MaxListings)}
    \cup {[readable |-> TRUE, columns |-> {ListingCol}, rows |-> r] :
             r \in SeqsUpTo(ListingCells, MaxListings)}

\* the rows of a brand file that has the columns c
BrandRows(c, r) ==
    [j \in 1..Len(r) |->
        [brand |-> IF "brand" \in c THEN r[j].brand ELSE NaN,
         key |-> IF "key" \in c THEN r[j].key ELSE NaN]]

\* the brand file: unreadable, or with any subset of the columns brand and
\* key; a row carries no value for a column the file lacks
BrandFiles ==
    {Unreadable}
    \cup {[readable |-> TRUE, columns |-> c, rows |-> BrandRows(c, r)] :
             c \in SUBSET {"brand", "key"},
             r \in SeqsUpTo([brand : BrandNames, key : KeyCells], MaxBrandRows)}

-----------------------------------------------------------------------------
(* main() *)

Init ==
    /\ pc = "read_input"
    /\ input_csv \in InputFiles
    /\ brands_csv \in BrandFiles
    /\ threshold \in Thresholds
    /\ df = <<>>
    /\ brand_keys = <<>>
    /\ matched_brand = <<>>
    /\ match_score = <<>>
    /\ matched_key = <<>>
    /\ output_csv = NotWritten
    /\ exit_code = -1

\* sys.exit(1)
Exit ==
    /\ pc' = "exited"
    /\ exit_code' = 1

\* df = pd.read_csv(args.input_csv)
ReadInput ==
    /\ pc = "read_input"
    /\ IF input_csv.readable
       THEN /\ df' = [j \in 1..Len(input_csv.rows) |-> [text |-> input_csv.rows[j]]]
            /\ pc' = "read_brands"
            /\ UNCHANGED exit_code
       ELSE Exit /\ UNCHANGED df
    /\ UNCHANGED <<input_csv, brands_csv, threshold, brand_keys,
                   matched_brand, match_score, matched_key, output_csv>>

\* brands = pd.read_csv(args.brands_csv)
ReadBrands ==
    /\ pc = "read_brands"
    /\ IF brands_csv.readable
       THEN pc' = "check" /\ UNCHANGED exit_code
       ELSE Exit
    /\ UNCHANGED <<input_csv, brands_csv, threshold, df, brand_keys,
                   matched_brand, match_score, matched_key, output_csv>>

\* the column check that forgets the key column
columns_ok_brand_only ==
    /\ ListingCol \in input_csv.columns
    /\ "brand" \in brands_csv.columns

columns_ok ==
    /\ ListingCol \in input_csv.columns
    /\ ~("brand" \notin brands_csv.columns \/ "key" \notin brands_csv.columns)

\* "Sanity columns"
CheckColumns ==
    /\ pc = "check"
    /\ IF columns_ok
       THEN pc' = "prep" /\ UNCHANGED exit_code
       ELSE Exit
    /\ UNCHANGED <<input_csv, brands_csv, threshold, df, brand_keys,
                   matched_brand, match_score, matched_key, output_csv>>

\* "Prep fields": the columns __list_norm and __list_compact
prep_row(row) ==
    LET list_norm == norm(fillna(row.text))
    IN [text |-> row.text, list_norm |-> list_norm,
        list_compact |-> compact(list_norm)]

Prep ==
    /\ pc = "prep"
    /\ df' = [j \in 1..Len(df) |-> prep_row(df[j])]
    /\ pc' = "build"
    /\ UNCHANGED <<input_csv, brands_csv, threshold, brand_keys,
                   matched_brand, match_score, matched_key, output_csv, exit_code>>

\* brand_keys = build_brand_keyspace(brands)
BuildKeyspace ==
    /\ pc = "build"
    /\ brand_keys' = build_brand_keyspace(brands_csv.rows)
    /\ pc' = "match"
    /\ UNCHANGED <<input_csv, brands_csv, threshold, df,
                   matched_brand, match_score, matched_key, output_csv, exit_code>>

\* the if/else of the match loop with the score of an unmatched row reset
emit_reset(b, sc, keyn, thr) ==
    IF b # None /\ GeqInt(sc, thr)
    THEN <<b, sc, keyn>>
    ELSE <<NO_BRAND, Zero, None>>

\* the if/else of the match loop without the test `b is not None`
emit_no_none_test(b, sc, keyn, thr) ==
    IF GeqInt(sc, thr)
    THEN <<b, sc, keyn>>
    ELSE <<NO_BRAND, sc, keyn>>

\* the if/else of the match loop with the comparison turned round
emit_flipped(b, sc, keyn, thr) ==
    IF b # None /\ ~GeqInt(sc, thr + 1)
    THEN <<b, sc, keyn>>
    ELSE <<NO_BRAND, sc, keyn>>

\* the if/else of the match loop: what is appended to the three lists
emit(b, sc, keyn, thr) ==
    IF b # None /\ GeqInt(sc, thr)
    THEN <<b, sc, keyn>>
    ELSE <<NO_BRAND, sc, keyn>>

\* one iteration of the match loop that puts its result at the front
MatchRowPrepend ==
    /\ pc = "match"
    /\ Len(matched_brand) < Len(df)
    /\ LET row == df[Len(matched_brand) + 1]
           best == best_brand(row.list_norm, row.list_compact, brand_keys)
           out == emit(best[1], best[2], best[3], threshold)
       IN /\ matched_brand' = <<out[1]>> \o matched_brand
          /\ match_score' = <<out[2]>> \o match_score
          /\ matched_key' = <<out[3]>> \o matched_key
    /\ UNCHANGED <<pc, input_csv, brands_csv, threshold, df, brand_keys,
                   output_csv, exit_code>>

\* one iteration of `for ln, lc in zip(...)`
MatchRow ==
    /\ pc = "match"
    /\ Len(matched_brand) < Len(df)
    /\ LET row == df[Len(matched_brand) + 1]
           best == best_brand(row.list_norm, row.list_compact, brand_keys)
           out == emit(best[1], best[2], best[3], threshold)
       IN /\ matched_brand' = Append(matched_brand, out[1])
          /\ match_score' = Append(match_score, out[2])
          /\ matched_key' = Append(matched_key, out[3])
    /\ UNCHANGED <<pc, input_csv, brands_csv, threshold, df, brand_keys,
                   output_csv, exit_code>>

\* the loop is over: the three lists become columns, the "__" columns are
\* dropped and the frame is written.  (The optional "Revenue (USD)" column
\* depends only on the price and units columns, which are not modelled.)
Save ==
    /\ pc = "match"
    /\ Len(matched_brand) = Len(df)
    /\ output_csv' = [j \in 1..Len(df) |->
                         [text |-> df[j].text,
                          brand |-> matched_brand[j],
                          score |-> match_score[j],
                          key |-> matched_key[j]]]
    /\ pc' = "done"
    /\ exit_code' = 0
    /\ UNCHANGED <<input_csv, brands_csv, threshold, df, brand_keys,
                   matched_brand, match_score, matched_key>>

Next ==
    \/ ReadInput
    \/ ReadBrands
    \/ CheckColumns
    \/ Prep
    \/ BuildKeyspace
    \/ MatchRow
    \/ Save

Spec == Init /\ [][Next]_vars

-----------------------------------------------------------------------------
(* norm on its own: the run is past the column check with one listing and   *)
(* one brand row that hold the same raw text.                               *)

RawTexts == SeqsUpTo(RawChars, MaxRawLen) \cup {NaN}

InitNorm ==
    /\ pc = "prep"
    /\ \E x \in RawTexts :
          /\ input_csv = [readable |-> TRUE, columns |-> {ListingCol}, rows |-> <<x>>]
          /\ brands_csv = [readable |-> TRUE, columns |-> {"brand", "key"},
                           rows |-> <<[brand |-> <<"A">>, key |-> x]>>]
          /\ df = <<[text |-> x]>>
    /\ threshold = DefaultThreshold
    /\ brand_keys = <<>>
    /\ matched_brand = <<>>
    /\ match_score = <<>>
    /\ matched_key = <<>>
    /\ output_csv = NotWritten
    /\ exit_code = -1

NextNorm == Prep \/ BuildKeyspace

SpecNorm == InitNorm /\ [][NextNorm]_vars

-----------------------------------------------------------------------------
(* build_brand_keyspace on its own: the run is about to build the keyspace  *)
(* from a brand file with both columns.  read_csv turns an empty cell into  *)
(* the missing value, so no brand cell is the empty string.                 *)

KeyspaceBrandCells == {<<"A">>, <<"B">>, <<" ">>, NaN}

KeyspaceKeyCells == {<<"a">>, <<"A">>, <<"b">>, <<"-">>, NaN}

InitKeyspace ==
    /\ pc = "build"
    /\ input_csv = [readable |-> TRUE, columns |-> {ListingCol}, rows |-> <<>>]
    /\ \E r \in SeqsUpTo([brand : KeyspaceBrandCells, key : KeyspaceKeyCells],
                         MaxBrandRows) :
          brands_csv = [readable |-> TRUE, columns |-> {"brand", "key"}, rows |-> r]
    /\ threshold = DefaultThreshold
    /\ df = <<>>
    /\ brand_keys = <<>>
    /\ matched_brand = <<>>
    /\ match_score = <<>>
    /\ matched_key = <<>>
    /\ output_csv = NotWritten
    /\ exit_code = -1

NextKeyspace == BuildKeyspace

SpecKeyspace == InitKeyspace /\ [][NextKeyspace]_vars

-----------------------------------------------------------------------------
(* best_brand on its own: the run is about to match one listing against a   *)
(* keyspace in which every row has a brand of its own.                      *)

\* listing texts: "", "a", "bb", "ab", "ba", "a b", "b a", "aab"
BestListings ==
    {<<>>, <<"a">>, <<"b", "b">>, <<"a", "b">>, <<"b", "a">>,
     <<"a", " ", "b">>, <<"b", " ", "a">>, <<"a", "a", "b">>}

\* keys: "a", "b", "aa", "ab", "a b", "b a"
BestKeys ==
    {<<"a">>, <<"b">>, <<"a", "a">>, <<"a", "b">>,
     <<"a", " ", "b">>, <<"b", " ", "a">>}

BestBrands == <<<<"A">>, <<"B">>, <<"C">>, <<"D">>>>

InitBest ==
    /\ pc = "match"
    /\ \E x \in BestListings :
          /\ input_csv = [readable |-> TRUE, columns |-> {ListingCol}, rows |-> <<x>>]
          /\ df = <<prep_row([text |-> x])>>
    /\ \E k \in SeqsUpTo(BestKeys, MaxBrandRows) :
          LET r == [j \in 1..Len(k) |-> [brand |-> BestBrands[j], key |-> k[j]]]
          IN /\ brands_csv = [readable |-> TRUE, columns |-> {"brand", "key"},
                              rows |-> r]
             /\ brand_keys = build_brand_keyspace(r)
    /\ threshold = DefaultThreshold
    /\ matched_brand = <<>>
    /\ match_score = <<>>
    /\ matched_key = <<>>
    /\ output_csv = NotWritten
    /\ exit_code = -1

NextBest == MatchRow \/ Save

SpecBest == InitBest /\ [][NextBest]_vars

-----------------------------------------------------------------------------
(* Properties *)

\* the rows the match loop has finished
Processed == 1..Len(matched_brand)

\* what best_brand returns for row j of the listings frame
BestOf(j) == best_brand(df[j].list_norm, df[j].list_compact, brand_keys)

\* what the loop of best_brand returns when it is run over the whole keyspace
FullScanOf(j) ==
    scan(df[j].list_norm, df[j].list_compact, brand_keys, <<None, Zero, None>>)

\* C1: for every listing the result emitted with the substring shortlist has
\* the brand and the score that a scan of the whole keyspace, in the same
\* order, gives.
C1_ShortlistSameAsFullScan ==
    \A j \in Processed :
        LET full == FullScanOf(j)
            out == emit(full[1], full[2], full[3], threshold)
        IN matched_brand[j] = out[1] /\ match_score[j] = out[2]

\* C2: a finished row carries the best brand, score and key when the best
\* brand is set and the best score reaches the threshold; otherwise it
\* carries "no brand" together with the best score and the best key.
C2_EmitBestOrNoBrand ==
    \A j \in Processed :
        LET best == BestOf(j)
        IN IF best[1] # None /\ best[2][1] >= threshold * best[2][2]
           THEN /\ matched_brand[j] = best[1]
                /\ match_score[j] = best[2]
                /\ matched_key[j] = best[3]
           ELSE /\ matched_brand[j] = NO_BRAND
                /\ match_score[j] = best[2]
                /\ matched_key[j] = best[3]

\* a row below the threshold keeps its score and key, beside a matched row
C2_Witness ==
    /\ \E j \in Processed :
          /\ matched_brand[j] = NO_BRAND
          /\ match_score[j] # Zero
          /\ matched_key[j] # None
    /\ \E j \in Processed : matched_brand[j] \in BrandNames

IsBlank(s) == \A i \in 1..Len(s) : s[i] \in Whitespace

\* C3: every entry of the keyspace has a non-empty normalised key and a
\* brand that is not empty, not blank and not missing.
C3_KeyspaceBrandsNotBlank ==
    pc = "match" =>
        \A j \in 1..Len(brand_keys) :
            /\ brand_keys[j].key_norm # <<>>
            /\ brand_keys[j].brand # NaN
            /\ ~IsBlank(brand_keys[j].brand)

\* row i of the brand file with its derived columns
Derived(i) == with_key_columns(brands_csv.rows[i])

SamePair(r, q) == r.brand = q.brand /\ r.key_norm = q.key_norm

\* row i passes the filter and no earlier row has its (brand, key_norm)
FirstOfPair(i) ==
    /\ Derived(i).key_norm # <<>>
    /\ Derived(i).brand # <<>>
    /\ \A h \in 1..(i - 1) : ~SamePair(Derived(h), Derived(i))

\* C4: the keyspace has no two entries with the same (brand, key_norm); its
\* entries are the first occurrences of their pairs in the brand file, in
\* the order of the file.
C4_KeyspaceFirstOccurrences ==
    pc = "match" =>
        LET n == Len(brands_csv.rows)
            first == SelectSeq([i \in 1..n |-> i], FirstOfPair)
        IN /\ \A j, k \in 1..Len(brand_keys) :
                 SamePair(brand_keys[j], brand_keys[k]) => j = k
           /\ brand_keys = [j \in 1..Len(first) |-> Derived(first[j])]

\* two rows whose keys differ as written but not once normalised: one stays
C4_Witness ==
    /\ pc = "match"
    /\ Len(brands_csv.rows) = 2
    /\ brands_csv.rows[1].key # brands_csv.rows[2].key
    /\ SamePair(Derived(1), Derived(2))
    /\ Len(brand_keys) = 1

\* C5: with an empty keyspace every listing gets "no brand", score 0 and no
\* key, whatever the threshold, and the run ends without an error.
C5_EmptyKeyspaceNoBrand ==
    (pc \in {"match", "done"} /\ brand_keys = <<>>) =>
        /\ \A j \in Processed :
              /\ matched_brand[j] = NO_BRAND
              /\ match_score[j] = Zero
              /\ matched_key[j] = None
        /\ exit_code \in {-1, 0}
        /\ pc = "done" => exit_code = 0 /\ Len(output_csv) = Len(input_csv.rows)

C5_Witness ==
    /\ pc = "done"
    /\ brand_keys = <<>>
    /\ threshold = 0
    /\ Len(output_csv) = MaxListings
    /\ Len(brands_csv.rows) > 0

MissingColumn ==
    \/ ListingCol \notin input_csv.columns
    \/ "brand" \notin brands_csv.columns
    \/ "key" \notin brands_csv.columns

\* C6: when the listings file lacks the listing column or the brand file
\* lacks brand or key, the run never gets past the column check: no listing
\* is matched, nothing is written, and when it has ended it has ended with
\* exit status 1.
C6_MissingColumnsNoOutput ==
    MissingColumn =>
        /\ pc \in {"read_input", "read_brands", "check", "exited"}
        /\ matched_brand = <<>>
        /\ output_csv = NotWritten
        /\ pc = "exited" => exit_code = 1

C6_Witness ==
    /\ pc = "exited"
    /\ input_csv.readable
    /\ brands_csv.readable
    /\ ListingCol \in input_csv.columns
    /\ brands_csv.columns = {"brand"}
    /\ Len(input_csv.rows) > 0
    /\ Len(brands_csv.rows) > 0

\* C7: a run that passes the column check ends with one result per listing
\* row, the j-th result being the result for the j-th row of the file.
C7_OneResultPerRowInOrder ==
    /\ Len(matched_brand) <= Len(df)
    /\ (input_csv.readable /\ brands_csv.readable /\ ~MissingColumn) => pc # "exited"
    /\ pc = "done" =>
          /\ Len(output_csv) = Len(input_csv.rows)
          /\ \A j \in 1..Len(output_csv) :
                LET ln == norm(fillna(input_csv.rows[j]))
                    best == best_brand(ln, compact(ln), brand_keys)
                IN /\ output_csv[j].text = input_csv.rows[j]
                   /\ <<output_csv[j].brand, output_csv[j].score, output_csv[j].key>>
                          = emit(best[1], best[2], best[3], threshold)

\* two rows, the first without text, with different results
C7_Witness ==
    /\ pc = "done"
    /\ Len(output_csv) = 2
    /\ output_csv[1].text = NaN
    /\ output_csv[1].brand = NO_BRAND
    /\ output_csv[2].brand \in BrandNames

\* C8: a listing that is matched under the threshold of the run is matched,
\* with the same brand, under every lower threshold.
C8_ThresholdMonotonic ==
    \A j \in Processed :
        \A t1 \in Thresholds :
            (t1 <= threshold /\ matched_brand[j] # NO_BRAND) =>
                LET best == BestOf(j)
                IN emit(best[1], best[2], best[3], t1)[1] = matched_brand[j]

\* under the default threshold one row is matched and another is not, though
\* it would be under threshold 0
C8_Witness ==
    /\ threshold = DefaultThreshold
    /\ \E j \in Processed : matched_brand[j] # NO_BRAND
    /\ \E j \in Processed :
          /\ matched_brand[j] = NO_BRAND
          /\ emit(BestOf(j)[1], BestOf(j)[2], BestOf(j)[3], 0)[1] # NO_BRAND

\* lowercase ASCII letters, digits and single spaces, no space at either end
IsNormalForm(s) ==
    /\ \A i \in 1..Len(s) : s[i] \in LowerLetters \cup Digits \cup {" "}
    /\ \A i \in 1..(Len(s) - 1) : ~(s[i] = " " /\ s[i + 1] = " ")
    /\ s # <<>> => s[1] # " " /\ s[Len(s)] # " "

\* C9: norm is idempotent, and what it returns holds only lowercase ASCII
\* letters, digits and single spaces, with no space at either end.
C9_NormIdempotentNormalForm ==
    /\ pc # "prep" =>
          \A j \in 1..Len(df) :
              /\ norm(df[j].list_norm) = df[j].list_norm
              /\ IsNormalForm(df[j].list_norm)
    /\ pc = "match" =>
          \A j \in 1..Len(brand_keys) :
              /\ norm(brand_keys[j].key_norm) = brand_keys[j].key_norm
              /\ IsNormalForm(brand_keys[j].key_norm)

\* a raw text with a transliterated letter, punctuation and outer whitespace
C9_Witness ==
    /\ pc = "build"
    /\ df[1].text = <<"\t", "A_GRAVE", "-">>
    /\ df[1].list_norm = <<"a">>

\* the candidates best_brand scans for row j
CandidatesOf(j) ==
    LET sub == shortlist(df[j].list_norm, df[j].list_compact, brand_keys)
    IN IF sub # <<>> THEN sub ELSE brand_keys

ScoreOf(j, row) ==
    score_listing_against_key(df[j].list_norm, df[j].list_compact,
                              row.key_norm, row.key_compact)

\* C10: when some scanned candidate scores above 0, best_brand returns the
\* brand, score and key of the first candidate whose score is the highest
\* of all scanned candidates; when none does it returns (None, 0, None).
C10_FirstMaximalCandidate ==
    \A j \in Processed :
        LET cand == CandidatesOf(j)
            best == BestOf(j)
        IN /\ match_score[j] = best[2]
           /\ matched_key[j] = best[3]
           /\ IF \E k \in 1..Len(cand) : Gt(ScoreOf(j, cand[k]), Zero)
              THEN \E k \in 1..Len(cand) :
                      /\ \A m \in 1..Len(cand) :
                            Geq(ScoreOf(j, cand[k]), ScoreOf(j, cand[m]))
                      /\ \A m \in 1..(k - 1) :
                            ScoreOf(j, cand[m]) # ScoreOf(j, cand[k])
                      /\ best = <<cand[k].brand, ScoreOf(j, cand[k]), cand[k].key_norm>>
              ELSE best = <<None, Zero, None>>

\* two candidates tie at the highest score and the first is returned
C10_Witness ==
    /\ Len(matched_brand) = 1
    /\ Len(CandidatesOf(1)) = 2
    /\ ScoreOf(1, CandidatesOf(1)[1]) = ScoreOf(1, CandidatesOf(1)[2])
    /\ BestOf(1)[1] = CandidatesOf(1)[1].brand
    /\ matched_key[1] = CandidatesOf(1)[1].key_norm

====
